---- MODULE Spec2Model ----
(***************************************************************************)
(* A model of the labeled-arrow StateMachine of src/index.js.              *)
(*                                                                         *)
(* JavaScript runs the machine on one thread.  A call of go or canGo runs  *)
(* to completion unless it enters user code: the availability predicate   *)
(* of an edge (line 170) or the action of an edge (line 205).  While user  *)
(* code runs, the user code may call go and canGo again; `stack` holds     *)
(* the calls that are inside user code, innermost last.  A thenable        *)
(* returned by an action settles later, and the continuation registered    *)
(* on it (line 223) runs once no call is on the stack.  The state cell is  *)
(* a knockout observable: a write that changes its value calls the cell's  *)
(* subscribers before it returns, so a commit (line 212) ends inside the   *)
(* subscribers, with a frame of phase "notify" on the stack.               *)
(*                                                                         *)
(* The constructor, of this class and of the plain-target class of         *)
(* src/unnamed/part_001, is modelled on its own in SpecNew.                *)
(***************************************************************************)
EXTENDS Integers, Sequences, FiniteSets, TLC

VARIABLES
    state,              \* this._state()
    currentTransition,  \* this._currentTransition()
    stack,              \* the go/canGo calls that are inside user code
    thenables,          \* the thenables returned by actions, by slot
    last,               \* what the latest step completed: a call of go or
                        \* canGo, or the settlement of a thenable go returned
    construction        \* the options `new StateMachine(options)` was called
                        \* with, and how the constructor ended

vars == <<state, currentTransition, stack, thenables, last, construction>>

----------------------------------------------------------------------------
(* Bounds of the exploration. *)

\* Nesting depth of calls made from inside user callbacks.
MaxDepth == 2

\* Number of thenables that can be registered and not yet continued.
MaxPending == 1

----------------------------------------------------------------------------
(* JavaScript values. *)

\* Values an action can return, throw, fulfil with or reject with.
UserValues == {"undefined", "zero", "obj"}

\* `if (v)` is false for these.
Falsy == {"undefined", "null", "zero", "false", "emptyString"}

Truthy(v) == v \notin Falsy

\* The argument list a caller passes after targetState.  The machine never
\* looks into it, it only hands it on: "args" stands for whatever the caller
\* passed.
ArgLists == {"args"}

\* The error classes of lines 9..31, each with its superclasses.
Superclasses(cls) ==
    CASE cls = "ArrowNotAvailableError" ->
            {"ArrowNotAvailableError", "NoArrowsError", "UnreachableStateError"}
      [] cls = "NoArrowsError" -> {"NoArrowsError", "UnreachableStateError"}
      [] cls = "UnknownStateError" -> {"UnknownStateError", "UnreachableStateError"}
      [] cls = "UnknownArrowError" -> {"UnknownArrowError", "UnreachableStateError"}
      [] OTHER -> {cls}

\* err instanceof cls
InstanceOf(err, cls) == cls \in Superclasses(err)

----------------------------------------------------------------------------
(* The configuration the machine is constructed with.  Edge specs are named *)
(* by shape:                                                                *)
(*   "true"        the literal true                                         *)
(*   "fn"          a function                                               *)
(*   "rec"         {available: function, transition: function}              *)
(*   "recNoAvail"  {transition: function}                                   *)
(*   "emptyObj"    {}                                                       *)
(*   "false"       the literal false                                        *)

States == <<"a", "b", "c">>

Arrows == <<"x", "y">>

EmptyMap == <<>>

Transitions ==
    [a |-> [a |-> [x |-> "rec"],
            b |-> [x |-> "fn", y |-> "rec"],
            c |-> EmptyMap],
     b |-> [a |-> [x |-> "true"],
            b |-> [y |-> "false"],
            c |-> [x |-> "recNoAvail", y |-> "emptyObj"]],
     c |-> EmptyMap]

Initial == States[1]

Includes(seq, x) == \E i \in 1..Len(seq) : seq[i] = x

\* Identifiers a caller may pass: the declared ones and an undeclared one.
StateIds == {States[i] : i \in 1..Len(States)} \cup {"u"}
ArrowIds == {Arrows[i] : i \in 1..Len(Arrows)} \cup {"w"}

\* _.isEmpty(m) for an object or undefined
IsEmpty(m) == DOMAIN m = {}

NoTransition == [targetArrow |-> "null", targetState |-> "null"]

\* isBusy(): Boolean(this._currentTransition())
IsBusy == currentTransition # NoTransition

----------------------------------------------------------------------------
(* Records of the model. *)

\* `last` after a step that completes nothing.
NoCall ==
    [op |-> "none", targetArrow |-> "null", targetState |-> "null",
     gateError |-> "none", available |-> "none", action |-> "none",
     actionValue |-> "undefined", type |-> "none", value |-> "undefined",
     preState |-> "null", preBusy |-> FALSE]

Free ==
    [status |-> "free", targetArrow |-> "null", targetState |-> "null",
     sourceState |-> "null"]

Slots == 1..MaxPending

Top == stack[Len(stack)]

Pop == SubSeq(stack, 1, Len(stack) - 1)

\* The slots of t with the thenables in use moved to the front, in the order
\* they had: which slot holds a thenable is no state of the program.
Compact(t) ==
    LET inUse == SelectSeq(t, LAMBDA p : p.status # "free") IN
    [i \in Slots |-> IF i <= Len(inUse) THEN inUse[i] ELSE Free]

\* The lowest free slot (0 when none is free).
FreeSlot ==
    IF \E i \in Slots : thenables[i].status = "free"
    THEN CHOOSE i \in Slots :
            /\ thenables[i].status = "free"
            /\ \A j \in Slots : thenables[j].status = "free" => i <= j
    ELSE 0

----------------------------------------------------------------------------
(* The pure parts of the code. *)

\* DryGoError with the check for a transition in flight made first.
DryGoErrorBusyFirst(targetArrow, targetState) ==
    IF currentTransition # NoTransition THEN "ConcurrentTransitionError"
    ELSE IF ~Includes(States, targetState) THEN "UnknownStateError"
    ELSE IF ~Includes(Arrows, targetArrow) THEN "UnknownArrowError"
    ELSE IF state \notin DOMAIN Transitions \/ IsEmpty(Transitions[state])
         THEN "NoArrowsError"
    ELSE IF \/ targetState \notin DOMAIN Transitions[state]
            \/ IsEmpty(Transitions[state][targetState])
         THEN "NoArrowsError"
    ELSE IF targetArrow \notin DOMAIN Transitions[state][targetState]
         THEN "TypeError"
    ELSE "none"

\* DryGoError that tests the arrow before the target state.
DryGoErrorArrowFirst(targetArrow, targetState) ==
    IF ~Includes(Arrows, targetArrow) THEN "UnknownArrowError"
    ELSE IF ~Includes(States, targetState) THEN "UnknownStateError"
    ELSE IF currentTransition # NoTransition THEN "ConcurrentTransitionError"
    ELSE IF state \notin DOMAIN Transitions \/ IsEmpty(Transitions[state])
         THEN "NoArrowsError"
    ELSE IF \/ targetState \notin DOMAIN Transitions[state]
            \/ IsEmpty(Transitions[state][targetState])
         THEN "NoArrowsError"
    ELSE IF targetArrow \notin DOMAIN Transitions[state][targetState]
         THEN "TypeError"
    ELSE "none"

\* _dryGo, lines 94..170: the error thrown before the availability predicate
\* is called, or "none".  Line 170 reads arrow.available, which throws a
\* TypeError when definedArrows has no entry for targetArrow.
DryGoError(targetArrow, targetState) ==
    IF ~Includes(States, targetState) THEN "UnknownStateError"
    ELSE IF ~Includes(Arrows, targetArrow) THEN "UnknownArrowError"
    ELSE IF currentTransition # NoTransition THEN "ConcurrentTransitionError"
    ELSE IF state \notin DOMAIN Transitions \/ IsEmpty(Transitions[state])
         THEN "NoArrowsError"
    ELSE IF \/ targetState \notin DOMAIN Transitions[state]
            \/ IsEmpty(Transitions[state][targetState])
         THEN "NoArrowsError"
    ELSE IF targetArrow \notin DOMAIN Transitions[state][targetState]
         THEN "TypeError"
    ELSE "none"

\* line 170: arrow.available is set
HasAvailable(arrow) == arrow = "rec"

\* line 170: isAvailable, given what the predicate returned
IsAvailable(arrow, returned) == ~HasAvailable(arrow) \/ returned = "truthy"

\* line 170: the arguments the availability predicate is called with
AvailableArgs(args) == args

\* lines 83, 87, 205: the arguments the action is called with
ActionArgs(args) == args

\* EvaluateArrow that takes every shape it cannot call for `true`.
EvaluateArrowCoerces(arrow) ==
    IF arrow \in {"fn", "rec", "recNoAvail"} THEN "call" ELSE "return"

\* _evaluateArrow, lines 77..91: "return" (nothing to call), "call" (a user
\* function is called) or "throw" (a TypeError).
EvaluateArrow(arrow) ==
    IF arrow = "true" THEN "return"
    ELSE IF arrow = "fn" THEN "call"
    ELSE IF arrow \in {"rec", "recNoAvail"} THEN "call"
    ELSE "throw"

\* canGo's callback, line 183: Boolean(arrow)
CanGoCallback(arrow) == IF Truthy(arrow) THEN "true" ELSE "false"

\* CanGoCatch that rethrows every error.
CanGoCatchRethrows(err) == [type |-> "throw", value |-> err]

\* CanGoCatch that tests for the superclass NoArrowsError.
CanGoCatchNoArrows(err) ==
    IF InstanceOf(err, "NoArrowsError")
    THEN [type |-> "return", value |-> "false"]
    ELSE [type |-> "throw", value |-> err]

\* canGo's catch clause, lines 185..190
CanGoCatch(err) ==
    IF InstanceOf(err, "ArrowNotAvailableError")
    THEN [type |-> "return", value |-> "false"]
    ELSE [type |-> "throw", value |-> err]

\* Resolved that commits the state and leaves the transition marked.
ResolvedKeepsTransition(targetState, ret) ==
    [state |-> targetState, transition |-> currentTransition,
     type |-> "return", value |-> ret]

\* go's `resolved`, lines 211..215
Resolved(targetState, ret) ==
    [state |-> targetState, transition |-> NoTransition,
     type |-> "return", value |-> ret]

\* Rejected that returns the error instead of throwing it.
RejectedReturns(err) ==
    [state |-> state, transition |-> NoTransition,
     type |-> "return", value |-> err]

\* go's `rejected`, lines 217..220
Rejected(err) ==
    [state |-> state, transition |-> NoTransition,
     type |-> "throw", value |-> err]

\* go's callback after _evaluateArrow, lines 200..228.  `outcome` is what
\* _evaluateArrow did: type "return", "throw", "thenable" (a thenable whose
\* then registers the continuation) or "thenThrows" (a thenable whose then
\* throws outcome.value when line 223 calls it).
GoSettle(targetState, outcome) ==
    LET transitionResult ==
            IF outcome.type = "throw" THEN "undefined" ELSE outcome.value
        transitionResultIsThenable == outcome.type \in {"thenable", "thenThrows"}
        transitionError ==
            IF outcome.type = "throw" THEN outcome.value ELSE "undefined"
    IN  IF transitionResultIsThenable
        THEN IF outcome.type = "thenThrows"
             THEN \* line 223 throws: neither resolved nor rejected has run
                  [state |-> state, transition |-> currentTransition,
                   type |-> "throw", value |-> outcome.value]
             ELSE [state |-> state, transition |-> currentTransition,
                   type |-> "thenable", value |-> "thenable"]
        ELSE IF Truthy(transitionError)
        THEN Rejected(transitionError)
        ELSE Resolved(targetState, transitionResult)

----------------------------------------------------------------------------
(* The constructor.  An options object is a record: `has` holds the keys    *)
(* that are set, `states` and `arrows` are arrays (empty when not set),     *)
(* `initial` is an identifier ("undefined" when not set) and `transitions`  *)
(* is given by the (source, target) pairs it names.  `variant` tells the    *)
(* labeled-arrow class of src/index.js from the plain-target class of       *)
(* src/unnamed/part_001.                                                    *)

OptionKeys == {"states", "arrows", "initial", "transitions"}

\* The (source, target) pairs a transitions object of the labeled variant names.
PairsOf(transitions) ==
    {<<s, t>> : s \in DOMAIN transitions, t \in StateIds} \cap
        {p \in (DOMAIN transitions) \X StateIds : p[2] \in DOMAIN transitions[p[1]]}

\* The options the machine of Spec is constructed with.
DefaultOptions ==
    [variant |-> "labeled", has |-> {"states", "arrows", "transitions"},
     states |-> States, arrows |-> Arrows, initial |-> "undefined",
     transitions |-> PairsOf(Transitions)]

\* constructor, src/index.js lines 34..67: how it ends, and options.initial
\* after line 47.
ConstructLabeled(o) ==
    LET initial == IF ~Truthy(o.initial) THEN o.states[1] ELSE o.initial IN
    IF "states" \notin o.has \/ Len(o.states) = 0
    THEN [outcome |-> "InvalidOptionsError", initial |-> "null"]
    ELSE IF "arrows" \notin o.has \/ Len(o.arrows) = 0
    THEN [outcome |-> "InvalidOptionsError", initial |-> "null"]
    ELSE IF ~Includes(o.states, initial)
    THEN [outcome |-> "UnknownStateError", initial |-> "null"]
    ELSE IF "transitions" \notin o.has
    THEN [outcome |-> "InvalidOptionsError", initial |-> "null"]
    ELSE [outcome |-> "constructed", initial |-> initial]

\* constructor, src/unnamed/part_001 lines 26..54
ConstructPlain(o) ==
    LET initial == IF ~Truthy(o.initial) THEN o.states[1] ELSE o.initial IN
    IF "states" \notin o.has \/ Len(o.states) = 0
    THEN [outcome |-> "InvalidOptionsError", initial |-> "null"]
    ELSE IF ~Includes(o.states, initial)
    THEN [outcome |-> "UnknownStateError", initial |-> "null"]
    ELSE IF "transitions" \notin o.has
    THEN [outcome |-> "InvalidOptionsError", initial |-> "null"]
    ELSE [outcome |-> "constructed", initial |-> initial]

Construct(o) ==
    IF o.variant = "labeled" THEN ConstructLabeled(o) ELSE ConstructPlain(o)

\* The record of a constructor call with options o that ended with `outcome`.
Construction(o, outcome) ==
    [variant |-> o.variant, has |-> o.has, states |-> o.states,
     arrows |-> o.arrows, initial |-> o.initial,
     transitions |-> o.transitions, outcome |-> outcome]

----------------------------------------------------------------------------
(* The state after construction, lines 60..66. *)

Init ==
    /\ state = Initial
    /\ currentTransition = NoTransition
    /\ stack = <<>>
    /\ thenables = [i \in Slots |-> Free]
    /\ last = NoCall
    /\ construction = Construction(DefaultOptions, Construct(DefaultOptions).outcome)

----------------------------------------------------------------------------
(* Steps of go and canGo. *)

\* The record of a completed call.
CallRecord(f, gateError, action, actionValue, out) ==
    [op |-> f.op, targetArrow |-> f.targetArrow,
     targetState |-> f.targetState, gateError |-> gateError,
     available |-> f.available,
     action |-> action, actionValue |-> actionValue,
     type |-> out.type, value |-> out.value,
     preState |-> f.preState, preBusy |-> f.preBusy]

\* The end of a call or continuation whose outcome is `upd`, `rec` being its
\* record, `base` the stack below it, `th` the thenables after it and
\* `marker` the value of _currentTransition when `resolved` is entered.  When
\* `resolved` changes the value of the state cell (line 212), knockout calls
\* the cell's subscribers at once, before line 213 clears the transition:
\* the step ends inside the subscriber, and Notified does the rest.
Finish(f, upd, rec, base, th, marker) ==
    IF upd.type = "return" /\ upd.state # state
    THEN /\ state' = upd.state
         /\ stack' = Append(base, [phase |-> "notify", op |-> f.op,
                                   targetArrow |-> f.targetArrow,
                                   targetState |-> f.targetState,
                                   preState |-> f.preState,
                                   transition |-> upd.transition,
                                   record |-> rec])
         /\ last' = NoCall
         /\ thenables' = th
         /\ currentTransition' = marker
    ELSE /\ state' = upd.state
         /\ currentTransition' = upd.transition
         /\ last' = rec
         /\ stack' = base
         /\ thenables' = th

\* Thrown that clears the transition in flight on the way out.
ThrownClearsTransition(f, err, base) ==
    /\ last' = CallRecord(f, err, "none", "undefined",
                          IF f.op = "canGo" THEN CanGoCatch(err)
                          ELSE [type |-> "throw", value |-> err])
    /\ stack' = base
    /\ currentTransition' = NoTransition
    /\ UNCHANGED <<state, thenables>>

\* A call that leaves _dryGo by an exception `err` of the gate: canGo's catch
\* clause decides what canGo does with it, go lets it through.
Thrown(f, err, base) ==
    /\ last' = CallRecord(f, err, "none", "undefined",
                          IF f.op = "canGo" THEN CanGoCatch(err)
                          ELSE [type |-> "throw", value |-> err])
    /\ stack' = base
    /\ UNCHANGED <<state, currentTransition, thenables>>

\* line 177: the callback is called, the gate having passed.  `base` is the
\* stack below this call.
Callback(f, base) ==
    IF f.op = "canGo"
    THEN \* lines 182..184
         /\ last' = CallRecord(f, "none", "none", "undefined",
                               [type |-> "return", value |-> CanGoCallback(f.arrow)])
         /\ stack' = base
         /\ UNCHANGED <<state, currentTransition, thenables>>
    ELSE \* lines 194..229
         LET how == EvaluateArrow(f.arrow) IN
         IF how = "call"
         THEN \* line 195, then the user's action starts to run
              /\ currentTransition' =
                    [targetArrow |-> f.targetArrow, targetState |-> f.targetState]
              /\ stack' = Append(base, [f EXCEPT !.phase = "action",
                                                 !.calledWith = ActionArgs(f.args)])
              /\ last' = NoCall
              /\ UNCHANGED <<state, thenables>>
         ELSE \* line 195, _evaluateArrow returns or throws at once
              LET outcome == IF how = "return"
                             THEN [type |-> "return", value |-> "undefined"]
                             ELSE [type |-> "throw", value |-> "TypeError"]
                  upd == GoSettle(f.targetState, outcome)
              IN  Finish(f, upd,
                         CallRecord(f, "none", outcome.type, outcome.value, upd),
                         base, thenables,
                         [targetArrow |-> f.targetArrow,
                          targetState |-> f.targetState])

\* go(targetArrow, targetState, ...args) or canGo(targetArrow, targetState,
\* ...args) is called, from the top level or from inside an availability
\* predicate or an action, and runs until it completes or enters user code.
\* A subscriber of the state cell reads state() and isBusy(): it is not
\* taken to call go or canGo.
Call(op, targetArrow, targetState, args) ==
    /\ Len(stack) < MaxDepth
    /\ stack # <<>> => Top.phase # "notify"
    /\ UNCHANGED construction
    /\ LET err == DryGoError(targetArrow, targetState)
           f == [op |-> op, targetArrow |-> targetArrow, targetState |-> targetState,
                 args |-> args,
                 arrow |-> IF err = "none"
                           THEN Transitions[state][targetState][targetArrow]
                           ELSE "undefined",
                 phase |-> "available", available |-> "none",
                 calledWith |-> AvailableArgs(args),
                 preState |-> state, preBusy |-> IsBusy]
       IN  IF err # "none"
           THEN Thrown(f, err, stack)
           ELSE IF HasAvailable(f.arrow)
           THEN \* line 170: the availability predicate starts to run
                /\ stack' = Append(stack, f)
                /\ last' = NoCall
                /\ UNCHANGED <<state, currentTransition, thenables>>
           ELSE Callback(f, stack)

\* The availability predicate of the innermost call returns (line 170).
AvailableReturn(returned) ==
    /\ stack # <<>>
    /\ Top.phase = "available"
    /\ UNCHANGED construction
    /\ LET f == [Top EXCEPT !.available = returned] IN
       IF IsAvailable(f.arrow, returned)
       THEN Callback(f, Pop)
       ELSE Thrown(f, "ArrowNotAvailableError", Pop)

\* What an action can do: return a value, throw a value, return a thenable.
ActionOutcomes ==
    [type : {"return", "throw"}, value : UserValues]
        \cup {[type |-> "thenable", value |-> "thenable"]}

\* What an action can do besides: return a thenable whose then throws a
\* value when go calls it to register the continuation (line 223).
ThenThrowsOutcomes == [type : {"thenThrows"}, value : UserValues]

\* The action of the innermost call returns or throws (line 205), and go
\* finishes (lines 206..228).
ActionReturn(outcome) ==
    /\ stack # <<>>
    /\ Top.phase = "action"
    /\ outcome.type = "thenable" => FreeSlot # 0
    /\ UNCHANGED construction
    /\ LET upd == GoSettle(Top.targetState, outcome) IN
       Finish(Top, upd,
              CallRecord(Top, "none", outcome.type, outcome.value, upd), Pop,
              IF upd.type = "thenable"
              THEN [thenables EXCEPT ![FreeSlot] =
                      [status |-> "pending", targetArrow |-> Top.targetArrow,
                       targetState |-> Top.targetState,
                       sourceState |-> Top.preState]]
              ELSE thenables,
              currentTransition)

\* The thenable in slot i settles.  The value it settles with is observed
\* only by the continuation, and is chosen there.  No step of a call reads
\* whether a thenable has settled, so a settlement during a call is the same
\* as one right after it: settlements are taken between calls.
Settle(i, status) ==
    /\ stack = <<>>
    /\ thenables[i].status = "pending"
    /\ thenables' = [thenables EXCEPT ![i].status = status]
    /\ last' = NoCall
    /\ UNCHANGED <<state, currentTransition, stack, construction>>

\* The continuation registered at line 223 runs for the settled thenable in
\* slot i: `resolved` or `rejected`, and the thenable go returned settles.
Continuation(i, value) ==
    /\ stack = <<>>
    /\ thenables[i].status \in {"fulfilled", "rejected"}
    /\ LET p == thenables[i]
           upd == IF p.status = "fulfilled"
                  THEN Resolved(p.targetState, value)
                  ELSE Rejected(value)
       IN  /\ Finish([op |-> "then", targetArrow |-> p.targetArrow,
                      targetState |-> p.targetState, preState |-> p.sourceState],
                     upd,
                     [op |-> "then", targetArrow |-> p.targetArrow,
                      targetState |-> p.targetState, gateError |-> "none",
                      available |-> "none", action |-> p.status,
                      actionValue |-> value,
                      type |-> IF upd.type = "return" THEN "resolve" ELSE "reject",
                      value |-> upd.value,
                      preState |-> p.sourceState, preBusy |-> FALSE],
                     stack, Compact([thenables EXCEPT ![i] = Free]),
                     currentTransition)
           /\ UNCHANGED construction

\* The subscribers of the state cell have run: `resolved` goes on with line
\* 213 and the call (or the continuation) completes.
Notified ==
    /\ stack # <<>>
    /\ Top.phase = "notify"
    /\ currentTransition' = Top.transition
    /\ last' = Top.record
    /\ stack' = Pop
    /\ UNCHANGED <<state, thenables, construction>>

Next ==
    \/ \E op \in {"go", "canGo"}, targetArrow \in ArrowIds,
          targetState \in StateIds, args \in ArgLists :
            Call(op, targetArrow, targetState, args)
    \/ \E returned \in {"truthy", "falsy"} : AvailableReturn(returned)
    \/ \E outcome \in ActionOutcomes : ActionReturn(outcome)
    \/ \E i \in Slots, status \in {"fulfilled", "rejected"} : Settle(i, status)
    \/ \E i \in Slots, value \in UserValues : Continuation(i, value)
    \/ Notified

Spec == Init /\ [][Next]_vars

\* What runs once it has been started: a predicate or an action that was
\* called returns, a thenable an action returned settles (the assumption the
\* documentation makes), a continuation registered on a settled thenable is
\* run by the job queue, and a notification returns.  Calls of go and canGo
\* are up to the user, and nothing makes them happen.
Fairness ==
    /\ SF_vars(\E returned \in {"truthy", "falsy"} : AvailableReturn(returned))
    /\ SF_vars(\E outcome \in ActionOutcomes : ActionReturn(outcome))
    /\ SF_vars(\E i \in Slots, status \in {"fulfilled", "rejected"} : Settle(i, status))
    /\ SF_vars(\E i \in Slots, value \in UserValues : Continuation(i, value))
    /\ SF_vars(Notified)

SpecFair == Spec /\ Fairness

\* The machine with actions that may also return a thenable whose then
\* throws.
NextThen ==
    \/ Next
    \/ \E outcome \in ThenThrowsOutcomes : ActionReturn(outcome)

SpecThen == Init /\ [][NextThen]_vars

----------------------------------------------------------------------------
(* The plain-target StateMachine of src/unnamed/part_001: go(target,        *)
(* ...args), edges without arrows and without availability predicates.     *)
(* `currentTransition` holds this._transitioning(), the target of the      *)
(* transition in flight, in its field targetState.  From line 121 on, go   *)
(* is the same code as lines 200..228 of src/index.js, so the steps after  *)
(* the call (ActionReturn, Settle, Continuation, Notified) are shared.     *)
(* Edge specs are "true", "fn", "emptyObj" and "false" as above.           *)

PlainStates == <<"a", "b", "zero">>

PlainTransitions ==
    [a |-> [a |-> "emptyObj", b |-> "fn", zero |-> "fn"],
     b |-> [a |-> "true", b |-> "false"],
     zero |-> [a |-> "fn"]]

\* Targets a caller may pass: the declared ones and an undeclared one.
PlainStateIds == {PlainStates[i] : i \in 1..Len(PlainStates)} \cup {"u"}

\* isBusy(), line 61: Boolean(this._transitioning())
IsBusyPlain == Truthy(currentTransition.targetState)

\* go, lines 77..118: the error thrown before the transition is marked, or
\* "none".
PlainGoError(target) ==
    IF ~Includes(PlainStates, target) THEN "UnknownStateError"
    ELSE IF Truthy(currentTransition.targetState)
         THEN "ConcurrentTransitioningError"
    ELSE IF \/ state \notin DOMAIN PlainTransitions
            \/ target \notin DOMAIN PlainTransitions[state]
            \/ ~Truthy(PlainTransitions[state][target])
         THEN "NoTransitionsError"
    ELSE "none"

\* _evaluateTransition, lines 64..74: "return", "call" or "throw" (TypeError)
EvaluateTransition(transition) ==
    IF transition = "true" THEN "return"
    ELSE IF transition = "fn" THEN "call"
    ELSE "throw"

InitPlain ==
    /\ state = PlainStates[1]
    /\ currentTransition = NoTransition
    /\ stack = <<>>
    /\ thenables = [i \in Slots |-> Free]
    /\ last = NoCall
    /\ construction =
        Construction([variant |-> "plain", has |-> {"states", "transitions"},
                      states |-> PlainStates, arrows |-> <<>>,
                      initial |-> "undefined",
                      transitions |-> {<<"a", "a">>, <<"a", "b">>, <<"a", "zero">>,
                                       <<"b", "a">>, <<"b", "b">>, <<"zero", "a">>}],
                     "constructed")

\* go(target, ...args) is called, from the top level or from inside an
\* action, and runs until it completes or enters the action.
GoPlain(target, args) ==
    /\ Len(stack) < MaxDepth
    /\ stack # <<>> => Top.phase # "notify"
    /\ UNCHANGED construction
    /\ LET err == PlainGoError(target)
           f == [op |-> "go", targetArrow |-> "null", targetState |-> target,
                 args |-> args,
                 arrow |-> IF err = "none" THEN PlainTransitions[state][target]
                           ELSE "undefined",
                 phase |-> "action", available |-> "none",
                 calledWith |-> ActionArgs(args),
                 preState |-> state, preBusy |-> IsBusyPlain]
           marker == [targetArrow |-> "null", targetState |-> target]
           how == EvaluateTransition(f.arrow)
       IN  IF err # "none"
           THEN /\ last' = CallRecord(f, err, "none", "undefined",
                                      [type |-> "throw", value |-> err])
                /\ UNCHANGED <<state, currentTransition, stack, thenables>>
           ELSE IF how = "call"
           THEN \* line 120, then the user's action starts to run
                /\ currentTransition' = marker
                /\ stack' = Append(stack, f)
                /\ last' = NoCall
                /\ UNCHANGED <<state, thenables>>
           ELSE \* line 120, _evaluateTransition returns or throws at once
                LET outcome == IF how = "return"
                               THEN [type |-> "return", value |-> "undefined"]
                               ELSE [type |-> "throw", value |-> "TypeError"]
                    upd == GoSettle(target, outcome)
                IN  Finish(f, upd,
                           CallRecord(f, "none", outcome.type, outcome.value, upd),
                           stack, thenables, marker)

NextPlain ==
    \/ \E target \in PlainStateIds, args \in ArgLists : GoPlain(target, args)
    \/ \E outcome \in ActionOutcomes : ActionReturn(outcome)
    \/ \E i \in Slots, status \in {"fulfilled", "rejected"} : Settle(i, status)
    \/ \E i \in Slots, value \in UserValues : Continuation(i, value)
    \/ Notified

SpecPlain == InitPlain /\ [][NextPlain]_vars

----------------------------------------------------------------------------
(* The constructor on its own: `new StateMachine(options)` for options     *)
(* drawn from the sets below.                                               *)

\* Identifier of a state cell that does not exist (the constructor threw).
NoState == "null"

StateLists == {<<>>, <<"a">>, <<"a", "zero">>, <<"zero", "a">>}

ArrowLists == {<<>>, <<"x">>}

InitialIds == {"a", "zero", "foo"}

TransitionPairs == {{}, {<<"a", "a">>}, {<<"a", "b">>}}

OptionSets ==
    {[variant |-> v, has |-> h,
      states |-> IF "states" \in h THEN s ELSE <<>>,
      arrows |-> IF "arrows" \in h THEN a ELSE <<>>,
      initial |-> IF "initial" \in h THEN i ELSE "undefined",
      transitions |-> IF "transitions" \in h THEN t ELSE {}] :
        v \in {"labeled", "plain"}, h \in SUBSET OptionKeys, s \in StateLists,
        a \in ArrowLists, i \in InitialIds, t \in TransitionPairs}

InitNew ==
    /\ construction \in {Construction(o, "pending") : o \in OptionSets}
    /\ state = NoState
    /\ currentTransition = NoTransition
    /\ stack = <<>>
    /\ thenables = [i \in Slots |-> Free]
    /\ last = NoCall

\* new StateMachine(options)
New ==
    /\ construction.outcome = "pending"
    /\ LET r == Construct(construction) IN
       /\ construction' = [construction EXCEPT !.outcome = r.outcome]
       /\ state' = IF r.outcome = "constructed" THEN r.initial ELSE NoState
       /\ currentTransition' = NoTransition
    /\ UNCHANGED <<stack, thenables, last>>

SpecNew == InitNew /\ [][New]_vars

----------------------------------------------------------------------------
(* What the claims speak about. *)

\* The calls whose action is running.
ActionsRunning == {k \in 1..Len(stack) : stack[k].phase = "action"}

\* The thenables returned by an action that have not settled.
ThenablesPending == {i \in Slots : thenables[i].status = "pending"}

\* The number of actions invoked and not yet settled.
InFlight == Cardinality(ActionsRunning) + Cardinality(ThenablesPending)

KnownState(s) == Includes(States, s)

KnownArrow(a) == Includes(Arrows, a)

\* The configuration has an edge from s to t via arrow a.
HasEdge(s, t, a) ==
    /\ s \in DOMAIN Transitions
    /\ t \in DOMAIN Transitions[s]
    /\ a \in DOMAIN Transitions[s][t]

\* The latest step completed a call of go.
GoCompleted == last.op = "go"

\* The error a go call gets that is issued while a transition is in flight.
BusyError(targetArrow, targetState) ==
    IF ~KnownState(targetState) THEN "UnknownStateError"
    ELSE IF ~KnownArrow(targetArrow) THEN "UnknownArrowError"
    ELSE "ConcurrentTransitionError"

----------------------------------------------------------------------------
(* C1: at most one transition action is in flight (invoked and not yet     *)
(* settled) at any time, whatever the interleaving of go calls, canGo      *)
(* calls and settlements, calls made from inside an availability predicate *)
(* or a running action included.                                           *)
C1_AtMostOneInFlight == InFlight <= 1

(* C2, as claimed: every go call issued while isBusy() is true fails with  *)
(* ConcurrentTransitionError, and leaves state() and isBusy() as they were. *)
C2_BusyGoFailsConcurrent ==
    (GoCompleted /\ last.preBusy) =>
        /\ last.type = "throw"
        /\ last.value = "ConcurrentTransitionError"
        /\ state = last.preState
        /\ IsBusy

(* C2, amended: a go call issued while isBusy() is true fails, with        *)
(* UnknownStateError for an undeclared target state, else with             *)
(* UnknownArrowError for an undeclared arrow, else with                    *)
(* ConcurrentTransitionError; state() and isBusy() are left as they were.  *)
C2_BusyGoFails ==
    (GoCompleted /\ last.preBusy) =>
        /\ last.type = "throw"
        /\ last.value = BusyError(last.targetArrow, last.targetState)
        /\ state = last.preState
        /\ IsBusy

C2_Witness ==
    /\ GoCompleted
    /\ last.preBusy
    /\ last.value = "ConcurrentTransitionError"

(* C3: from the moment go has set the busy marker and invoked the action   *)
(* until that action settles, isBusy() is true: whenever an action is in   *)
(* flight the machine is busy.                                             *)
C3_BusyWhileInFlight == InFlight > 0 => IsBusy

(* C4: when the action returns a non-thenable value v synchronously (v is  *)
(* undefined for the edge spec true), go returns v, and right after the    *)
(* call state() is the target state and isBusy() is false.                 *)
C4_SyncReturn ==
    (GoCompleted /\ last.action = "return") =>
        /\ last.type = "return"
        /\ last.value = last.actionValue
        /\ state = last.targetState
        /\ ~IsBusy

C4_Witness ==
    /\ GoCompleted
    /\ last.action = "return"
    /\ last.actionValue = "obj"
    /\ last.preState # last.targetState
    /\ state = last.targetState

(* C5: when the action throws E synchronously, whatever E is, go raises E, *)
(* state() is still the source state and isBusy() is false after the call. *)
C5_SyncThrow ==
    (GoCompleted /\ last.action = "throw") =>
        /\ last.type = "throw"
        /\ last.value = last.actionValue
        /\ state = last.preState
        /\ ~IsBusy

(* C6: when the action returns a thenable, go returns a thenable; until    *)
(* the action's thenable settles, state() stays at the source state and    *)
(* isBusy() stays true; when it fulfils with v, the state becomes the      *)
(* target state, isBusy() becomes false and go's thenable resolves with v. *)
C6_AsyncFulfil ==
    /\ (GoCompleted /\ last.action = "thenable") => last.type = "thenable"
    /\ \A i \in ThenablesPending :
            state = thenables[i].sourceState /\ IsBusy
    /\ (last.op = "then" /\ last.action = "fulfilled") =>
            /\ last.type = "resolve"
            /\ last.value = last.actionValue
            /\ state = last.targetState
            /\ ~IsBusy

TopOf(stk) == stk[Len(stk)]

\* go(targetArrow, targetState) fails one of the first four gate checks.
GateRefuses(targetArrow, targetState) ==
    \/ ~KnownState(targetState)
    \/ ~KnownArrow(targetArrow)
    \/ IsBusy
    \/ ~HasEdge(state, targetState, targetArrow)

ValidArrow(arrow) == arrow \in {"true", "fn", "rec", "recNoAvail"}

(* C11: for a declared arrow and a declared target state canGo never       *)
(* throws: it returns false when the current state has no target states,   *)
(* when there is no arrow from the current state to the target, and while  *)
(* a transition is in flight (state() and isBusy() left as they were), and *)
(* true when the edge exists and is available.                             *)
C11_CanGoNeverThrows ==
    (/\ last.op = "canGo"
     /\ KnownState(last.targetState)
     /\ KnownArrow(last.targetArrow)) =>
        /\ last.type = "return"
        /\ (\/ last.preBusy
            \/ ~HasEdge(last.preState, last.targetState, last.targetArrow))
            => /\ last.value = "false"
               /\ state = last.preState
               /\ IsBusy = last.preBusy
        /\ (/\ ~last.preBusy
            /\ HasEdge(last.preState, last.targetState, last.targetArrow)
            /\ ValidArrow(Transitions[last.preState][last.targetState][last.targetArrow])
            /\ last.available # "falsy")
            => last.value = "true"

----------------------------------------------------------------------------
(* The claims about the constructor, checked under SpecNew. *)

Constructed == construction.outcome = "constructed"

ConstructorEnded == construction.outcome # "pending"

\* states is set and not empty, and so is arrows in the labeled variant.
ListsGiven ==
    /\ "states" \in construction.has
    /\ Len(construction.states) > 0
    /\ construction.variant = "labeled"
        => "arrows" \in construction.has /\ Len(construction.arrows) > 0

\* initial is not set, or is one of states.
InitialDeclared ==
    "initial" \in construction.has
        => Includes(construction.states, construction.initial)

\* transitions names a target state that is not one of states.
NamesUnknownTarget ==
    /\ "transitions" \in construction.has
    /\ \E p \in construction.transitions :
            ~Includes(construction.states, p[2])

\* A configuration the documentation calls valid.
ValidOptions ==
    /\ ListsGiven
    /\ InitialDeclared
    /\ "transitions" \in construction.has
    /\ ~NamesUnknownTarget

\* The initial state the documentation describes: the explicit initial when
\* one is given, otherwise the first element of states.
ResolvedInitial ==
    IF "initial" \in construction.has
    THEN construction.initial
    ELSE construction.states[1]

(* C12: for every configuration in which states or transitions is missing, *)
(* whatever its other fields hold, the constructor throws                  *)
(* InvalidOptionsError; so it does in the labeled variant when arrows is   *)
(* missing or empty.                                                       *)
C12_MissingOptions ==
    (/\ ConstructorEnded
     /\ \/ "states" \notin construction.has
        \/ "transitions" \notin construction.has
        \/ /\ construction.variant = "labeled"
           /\ "arrows" \notin construction.has \/ Len(construction.arrows) = 0)
        => construction.outcome = "InvalidOptionsError"

(* C13: when transitions names a target state that is not one of states    *)
(* (and the configuration is otherwise in order), the constructor throws   *)
(* InvalidOptionsError and no machine is created.                          *)
C13_UnknownTargetInTransitions ==
    (/\ ConstructorEnded
     /\ ListsGiven
     /\ InitialDeclared
     /\ NamesUnknownTarget)
        => /\ construction.outcome = "InvalidOptionsError"
           /\ state = NoState

(* C14: for every valid configuration, right after construction state() is *)
(* the resolved initial state (the explicit initial when one is given,     *)
(* otherwise the first element of states) and isBusy() is false; an        *)
(* initial that is not one of states makes the constructor throw           *)
(* UnknownStateError.                                                      *)
C14_InitialState ==
    ConstructorEnded =>
        /\ ValidOptions
            => /\ Constructed
               /\ state = ResolvedInitial
               /\ ~IsBusy
        /\ (/\ ListsGiven
            /\ "transitions" \in construction.has
            /\ ~InitialDeclared)
            => construction.outcome = "UnknownStateError"

----------------------------------------------------------------------------
(* C15: a go or canGo call made while idle, with a declared state and a    *)
(* declared arrow, when the configuration has no edge from the current     *)
(* state to the target state via that arrow (edges between the two states  *)
(* under other arrows or not), fails with NoArrowsError.                    *)
C15_NoEdgeNoArrowsError ==
    (/\ last.op \in {"go", "canGo"}
     /\ ~last.preBusy
     /\ KnownState(last.targetState)
     /\ KnownArrow(last.targetArrow)
     /\ ~HasEdge(last.preState, last.targetState, last.targetArrow))
        => /\ last.type = "throw"
           /\ last.value = "NoArrowsError"

(* C16: when the edge spec go reaches is none of the three recognised      *)
(* shapes (true, a function, a record with a transition function), go      *)
(* throws a TypeError synchronously, state() is as before the call and     *)
(* isBusy() is false after it.                                             *)
C16_InvalidArrowTypeError ==
    (/\ GoCompleted
     /\ last.gateError = "none"
     /\ HasEdge(last.preState, last.targetState, last.targetArrow)
     /\ ~ValidArrow(Transitions[last.preState][last.targetState][last.targetArrow]))
        => /\ last.type = "throw"
           /\ last.value = "TypeError"
           /\ state = last.preState
           /\ ~IsBusy

C16_Witness ==
    /\ GoCompleted
    /\ last.gateError = "none"
    /\ last.action = "throw"
    /\ last.value = "TypeError"
    /\ Transitions[last.preState][last.targetState][last.targetArrow] = "emptyObj"
    /\ state = last.preState
    /\ ~IsBusy

(* C17: the gate tests, in this order and stopping at the first failure,   *)
(* the target state, the arrow, the transition in flight, the edge and the *)
(* availability predicate: an undeclared target state gives                *)
(* UnknownStateError and, the state being declared, an undeclared arrow    *)
(* gives UnknownArrowError, busy or not; a call made while busy with both  *)
(* declared gives ConcurrentTransitionError, edge or not; a call without   *)
(* an edge is refused before the predicate; and the predicate is called    *)
(* only when all four earlier checks have passed.                          *)
C17_GateOrder ==
    /\ last.op \in {"go", "canGo"} =>
        /\ ~KnownState(last.targetState)
            => last.type = "throw" /\ last.value = "UnknownStateError"
        /\ (KnownState(last.targetState) /\ ~KnownArrow(last.targetArrow))
            => last.type = "throw" /\ last.value = "UnknownArrowError"
        /\ (/\ KnownState(last.targetState)
            /\ KnownArrow(last.targetArrow)
            /\ last.preBusy)
            => last.type = "throw" /\ last.value = "ConcurrentTransitionError"
        /\ (/\ KnownState(last.targetState)
            /\ KnownArrow(last.targetArrow)
            /\ ~last.preBusy
            /\ ~HasEdge(last.preState, last.targetState, last.targetArrow))
            => /\ last.gateError \notin {"none", "ArrowNotAvailableError"}
               /\ last.available = "none"
        /\ (last.available # "none" \/ last.gateError = "ArrowNotAvailableError")
            => /\ KnownState(last.targetState)
               /\ KnownArrow(last.targetArrow)
               /\ ~last.preBusy
               /\ HasEdge(last.preState, last.targetState, last.targetArrow)
    /\ \A k \in 1..Len(stack) :
        stack[k].phase = "available"
            => /\ KnownState(stack[k].targetState)
               /\ KnownArrow(stack[k].targetArrow)
               /\ ~stack[k].preBusy
               /\ HasEdge(stack[k].preState, stack[k].targetState,
                          stack[k].targetArrow)

C17_Witness ==
    /\ last.op = "go"
    /\ last.preBusy
    /\ ~KnownState(last.targetState)
    /\ ~KnownArrow(last.targetArrow)
    /\ last.value = "UnknownStateError"

(* C18: provided every thenable an action returns settles, a busy machine  *)
(* becomes idle again; the step that makes it idle leaves the state at the *)
(* target when the action succeeded and at the source state when it        *)
(* failed; and an idle machine admits a go along every edge that leaves    *)
(* its state.                                                              *)
C18_BusyEndsIdle ==
    /\ IsBusy ~> ~IsBusy
    /\ [][(IsBusy /\ ~IsBusy') =>
            /\ last'.op \in {"go", "then"}
            /\ last'.action \in {"return", "fulfilled"}
                => state' = last'.targetState
            /\ last'.action \in {"throw", "rejected"}
                => state' = last'.preState]_vars
    /\ [](~IsBusy =>
            \A t \in StateIds, a \in ArrowIds :
                HasEdge(state, t, a) => DryGoError(a, t) = "none")

\* The liveness half of C18 on its own.
BusyLeadsToIdle == IsBusy ~> ~IsBusy

(* C19: state() is always one of states, and every change of state() from  *)
(* s to t is the commit of a go call whose gate found an edge from s to t  *)
(* via the requested arrow: the state the gate tested is the state held    *)
(* when the call commits.                                                  *)
C19_StateFollowsEdges ==
    /\ [] KnownState(state)
    /\ [][state' # state =>
            /\ stack' # <<>>
            /\ TopOf(stack').phase = "notify"
            /\ TopOf(stack').targetState = state'
            /\ TopOf(stack').preState = state
            /\ HasEdge(state, state', TopOf(stack').targetArrow)]_vars

(* C20: on success the commit of the new state and the clearing of the     *)
(* busy marker are one step: no reader, a subscriber called when the state *)
(* cell changes included, sees state() equal to the target state while     *)
(* isBusy() is true, nor isBusy() false while state() is the source state. *)
C20_AtomicCommit ==
    \A k \in 1..Len(stack) :
        stack[k].phase = "notify"
            => /\ ~(state = stack[k].targetState /\ IsBusy)
               /\ ~(state = stack[k].preState /\ ~IsBusy)

(* C21: in the plain-target variant, for every declared target, falsy     *)
(* identifiers included, isBusy() is true from the moment the action is    *)
(* invoked until it settles, and a go for a declared target that is issued *)
(* in that interval fails with ConcurrentTransitioningError.               *)
C21_PlainBusyWhileInFlight ==
    /\ [](InFlight > 0 => IsBusyPlain)
    /\ [][(/\ InFlight > 0
           /\ \* a go call is issued in this step
              \/ Len(stack') = Len(stack) + 1
              \/ Len(stack') = Len(stack) /\ last'.op = "go"
           /\ \* for a declared target
              \/ Len(stack') = Len(stack) + 1
              \/ Includes(PlainStates, last'.targetState))
            => /\ Len(stack') = Len(stack)
               /\ last'.type = "throw"
               /\ last'.value = "ConcurrentTransitioningError"]_vars

(* C22: every go call that ends by throwing synchronously, whatever the    *)
(* cause (a gate error, the action throwing, a malformed edge spec, the    *)
(* then of the action's thenable throwing), leaves state() as it was       *)
(* before the call, and leaves isBusy() false if it was false before.      *)
C22_FailedGoRestores ==
    (GoCompleted /\ last.type = "throw") =>
        /\ state = last.preState
        /\ ~last.preBusy => ~IsBusy

====
